---- MODULE Spec2Model ----
(***************************************************************************)
(* Model of manifestr's HLS manifest model (pkg/models/manifest.go) and of *)
(* the file fetcher it drives (pkg/utils DownloadFile).                    *)
(*                                                                         *)
(* Strings are TLA+ strings, i.e. sequences of characters; the text of a   *)
(* manifest is the sequence of lines bufio.Scanner delivers.  Floating     *)
(* point values are fixed-point integers in units of 10^-7, one digit more *)
(* than fmt's %f prints, so that rendering normalises a value.             *)
(***************************************************************************)
EXTENDS Integers, Sequences, FiniteSets, Bags, TLC

(***************************************************************************)
(* strings, path, strconv, fmt, time: the library calls manifest.go makes  *)
(***************************************************************************)
HasPrefix(s, p) == Len(s) >= Len(p) /\ SubSeq(s, 1, Len(p)) = p

HasSuffix(s, p) == Len(s) >= Len(p) /\ SubSeq(s, Len(s) - Len(p) + 1, Len(s)) = p

TrimPrefix(s, p) == IF HasPrefix(s, p) THEN SubSeq(s, Len(p) + 1, Len(s)) ELSE s

TrimSuffix(s, p) == IF HasSuffix(s, p) THEN SubSeq(s, 1, Len(s) - Len(p)) ELSE s

CharAt(s, i) == SubSeq(s, i, i)

\* index of the first occurrence of the character c in s from index i on, 0 if none
RECURSIVE IndexFrom(_, _, _)
IndexFrom(s, c, i) ==
    IF i > Len(s) THEN 0 ELSE IF CharAt(s, i) = c THEN i ELSE IndexFrom(s, c, i + 1)

\* index of the last occurrence of the character c in s up to index i, 0 if none
RECURSIVE LastIndexFrom(_, _, _)
LastIndexFrom(s, c, i) ==
    IF i < 1 THEN 0 ELSE IF CharAt(s, i) = c THEN i ELSE LastIndexFrom(s, c, i - 1)

IndexOf(s, c) == IndexFrom(s, c, 1)

LastIndexOf(s, c) == LastIndexFrom(s, c, Len(s))

Contains(s, c) == IndexOf(s, c) # 0

RECURSIVE TrimTrailingSlashes(_)
TrimTrailingSlashes(s) ==
    IF Len(s) > 0 /\ CharAt(s, Len(s)) = "/"
    THEN TrimTrailingSlashes(SubSeq(s, 1, Len(s) - 1))
    ELSE s

\* path.Base
PathBase(p) ==
    IF p = "" THEN "."
    ELSE LET q == TrimTrailingSlashes(p)
             r == SubSeq(q, LastIndexOf(q, "/") + 1, Len(q))
         IN  IF r = "" THEN "/" ELSE r

\* path.Ext: the suffix from the last dot of the last slash-separated element
PathExt(p) ==
    LET slash == LastIndexOf(p, "/")
        dot   == LastIndexOf(p, ".")
    IN  IF dot > slash THEN SubSeq(p, dot, Len(p)) ELSE ""

Digits == "0123456789"

DigitChar(d) == CharAt(Digits, d + 1)

DigitSet == {"0", "1", "2", "3", "4", "5", "6", "7", "8", "9"}

IsDigit(c) == c \in DigitSet

DigitVal(c) == CHOOSE d \in 0..9 : DigitChar(d) = c

AllDigits(s) == \A i \in 1..Len(s) : IsDigit(CharAt(s, i))

RECURSIVE NatStr(_)
NatStr(n) == IF n < 10 THEN DigitChar(n) ELSE NatStr(n \div 10) \o DigitChar(n % 10)

RECURSIVE NatVal(_)
NatVal(s) == IF s = "" THEN 0 ELSE 10 * NatVal(SubSeq(s, 1, Len(s) - 1)) + DigitVal(CharAt(s, Len(s)))

\* fmt's %d
FormatInt(n) == IF n < 0 THEN "-" \o NatStr(0 - n) ELSE NatStr(n)

\* strconv.Atoi with its error dropped: 0 on a syntax error
Atoi(s) ==
    LET neg  == HasPrefix(s, "-")
        body == IF neg \/ HasPrefix(s, "+") THEN SubSeq(s, 2, Len(s)) ELSE s
    IN  IF body # "" /\ AllDigits(body)
        THEN IF neg THEN 0 - NatVal(body) ELSE NatVal(body)
        ELSE 0

FloatUnit == 10000000

RECURSIVE PadLeft(_, _)
PadLeft(s, n) == IF Len(s) >= n THEN s ELSE PadLeft("0" \o s, n)

RECURSIVE PadRight(_, _)
PadRight(s, n) == IF Len(s) >= n THEN s ELSE PadRight(s \o "0", n)

\* fmt's %f of a non-negative value: six decimals, rounded
FormatFloat(v) ==
    LET q == (v + 5) \div 10
    IN  NatStr(q \div 1000000) \o "." \o PadLeft(NatStr(q % 1000000), 6)

\* strconv.ParseFloat with its error dropped, on plain decimals: 0 on a syntax error
ParseFloat(s) ==
    LET dot  == IndexOf(s, ".")
        ip   == IF dot = 0 THEN s ELSE SubSeq(s, 1, dot - 1)
        fp   == IF dot = 0 THEN "" ELSE SubSeq(s, dot + 1, Len(s))
    IN  IF (ip # "" \/ fp # "") /\ AllDigits(ip) /\ AllDigits(fp)
        THEN NatVal(ip) * FloatUnit + NatVal(SubSeq(PadRight(fp, 7), 1, 7))
        ELSE 0

(***************************************************************************)
(* time.Time: the wall clock to the second, as its text, and the fraction  *)
(* of the second in units of 100 microseconds.                             *)
(***************************************************************************)
ZeroTime == [clock |-> "0001-01-01T00:00:00", frac |-> 0]

RECURSIVE TrimTrailingZeros(_)
TrimTrailingZeros(s) ==
    IF Len(s) > 0 /\ CharAt(s, Len(s)) = "0"
    THEN TrimTrailingZeros(SubSeq(s, 1, Len(s) - 1))
    ELSE s

\* Time.Format(TimeFormat): .999 prints milliseconds without trailing zeros
TimeFormatOf(t) ==
    LET ms == TrimTrailingZeros(PadLeft(NatStr(t.frac \div 10), 3))
    IN  t.clock \o (IF ms = "" THEN "" ELSE "." \o ms) \o "Z"

ClockShape(c) ==
    /\ Len(c) = 19
    /\ \A i \in {5, 8} : CharAt(c, i) = "-"
    /\ CharAt(c, 11) = "T"
    /\ \A i \in {14, 17} : CharAt(c, i) = ":"
    /\ \A i \in (1..19) \ {5, 8, 11, 14, 17} : IsDigit(CharAt(c, i))

\* time.Parse(TimeFormat, s): the zero Time on an error
TimeParse(s) ==
    LET c    == SubSeq(s, 1, 19)
        rest == SubSeq(s, 20, Len(s))
        fr   == IF HasPrefix(rest, ".") THEN SubSeq(rest, 2, Len(rest) - 1) ELSE ""
    IN  IF /\ Len(s) >= 20
           /\ ClockShape(c)
           /\ HasSuffix(rest, "Z")
           /\ (rest = "Z" \/ (HasPrefix(rest, ".") /\ fr # "" /\ AllDigits(fr)))
        THEN [clock |-> c, frac |-> NatVal(SubSeq(PadRight(fr, 4), 1, 4))]
        ELSE ZeroTime

(***************************************************************************)
(* net/url: Parse, URL.Parse (ResolveReference) and URL.String, for        *)
(* locators made of a scheme, a host and a path.  NilUrl is the nil *URL   *)
(* that Parse returns together with an error; its Nil field tells.         *)
(***************************************************************************)
NilUrl == [Nil |-> TRUE, Scheme |-> "", Opaque |-> "", Host |-> "", Path |-> ""]

Letters ==
    {"a", "b", "c", "d", "e", "f", "g", "h", "i", "j", "k", "l", "m",
     "n", "o", "p", "q", "r", "s", "t", "u", "v", "w", "x", "y", "z",
     "A", "B", "C", "D", "E", "F", "G", "H", "I", "J", "K", "L", "M",
     "N", "O", "P", "Q", "R", "S", "T", "U", "V", "W", "X", "Y", "Z"}

IsLetter(c) == c \in Letters

IsSchemeChar(c) == IsLetter(c) \/ IsDigit(c) \/ c \in {"+", "-", "."}

\* index of the first character of raw from index i on that no scheme has, 0 if none
RECURSIVE SchemeStop(_, _)
SchemeStop(raw, i) ==
    IF i > Len(raw) THEN 0
    ELSE IF IsSchemeChar(CharAt(raw, i)) THEN SchemeStop(raw, i + 1) ELSE i

\* url.getScheme: the length of the scheme, 0 if there is none, -1 on "missing protocol scheme"
SchemeLen(raw) ==
    LET stop == SchemeStop(raw, 1)
    IN  IF stop = 0 \/ CharAt(raw, stop) # ":" THEN 0
        ELSE IF stop = 1 THEN -1
        ELSE IF IsLetter(CharAt(raw, 1)) THEN stop - 1
        ELSE 0

\* url.Parse
UrlParse(raw) ==
    LET n      == SchemeLen(raw)
        scheme == IF n > 0 THEN SubSeq(raw, 1, n) ELSE ""
        rest   == IF n > 0 THEN SubSeq(raw, n + 2, Len(raw)) ELSE raw
        slash  == IndexOf(rest, "/")
        seg    == IF slash = 0 THEN rest ELSE SubSeq(rest, 1, slash - 1)
        auth   == SubSeq(rest, 3, Len(rest))
        cut    == IndexOf(auth, "/")
    IN  IF n = -1 THEN NilUrl
        ELSE IF ~HasPrefix(rest, "/")
        THEN IF scheme # ""
             THEN [Nil |-> FALSE, Scheme |-> scheme, Opaque |-> rest, Host |-> "", Path |-> ""]
             ELSE IF Contains(seg, ":") THEN NilUrl
             ELSE [Nil |-> FALSE, Scheme |-> "", Opaque |-> "", Host |-> "", Path |-> rest]
        ELSE IF HasPrefix(rest, "//") /\ ~HasPrefix(rest, "///")
        THEN [Nil |-> FALSE, Scheme |-> scheme, Opaque |-> "",
              Host |-> IF cut = 0 THEN auth ELSE SubSeq(auth, 1, cut - 1),
              Path |-> IF cut = 0 THEN "" ELSE SubSeq(auth, cut, Len(auth))]
        ELSE [Nil |-> FALSE, Scheme |-> scheme, Opaque |-> "", Host |-> "", Path |-> rest]

\* url.resolvePath, for paths without dot segments
ResolvePath(base, ref) ==
    LET full == IF ref = "" THEN base
                ELSE IF HasPrefix(ref, "/") THEN ref
                ELSE SubSeq(base, 1, LastIndexOf(base, "/")) \o ref
    IN  IF full = "" THEN "" ELSE IF HasPrefix(full, "/") THEN full ELSE "/" \o full

\* URL.Parse: url.Parse of the reference, then URL.ResolveReference
UrlResolve(base, ref) ==
    LET r == UrlParse(ref)
    IN  IF r.Nil THEN NilUrl
        ELSE IF r.Scheme # "" \/ r.Host # ""
        THEN [r EXCEPT !.Scheme = IF r.Scheme = "" THEN base.Scheme ELSE r.Scheme,
                       !.Path = ResolvePath(r.Path, "")]
        ELSE IF r.Path = "" /\ base.Opaque # ""
        THEN [r EXCEPT !.Scheme = base.Scheme, !.Opaque = base.Opaque]
        ELSE [Nil |-> FALSE, Scheme |-> base.Scheme, Opaque |-> "", Host |-> base.Host,
              Path |-> ResolvePath(base.Path, r.Path)]

\* URL.String
UrlString(u) ==
    (IF u.Scheme # "" THEN u.Scheme \o ":" ELSE "")
    \o (IF u.Opaque # "" THEN u.Opaque
        ELSE (IF (u.Scheme # "" \/ u.Host # "") /\ (u.Host # "" \/ u.Path # "")
              THEN "//" \o u.Host ELSE "")
             \o (IF u.Path # "" /\ ~HasPrefix(u.Path, "/") /\ u.Host # "" THEN "/" ELSE "")
             \o u.Path)

(***************************************************************************)
(* The manifest model: Manifest, Discontinuity, ManifestEntry              *)
(***************************************************************************)
TagOpener == "#EXTM3U"

TagBandwidth == "##X-BANDWIDTH:"

TagCodecs == "##X-CODECS:"

TagResolution == "##X-RESOLUTION:"

TagVersion == "#EXT-X-VERSION:"

TagMediaSequence == "#EXT-X-MEDIA-SEQUENCE:"

TagAllowCache == "#EXT-X-ALLOW-CACHE:"

TagTargetDuration == "#EXT-X-TARGETDURATION:"

TagDiscontinuity == "#EXT-X-DISCONTINUITY"

TagProgramDateTime == "#EXT-X-PROGRAM-DATE-TIME:"

TagInitFile == "#EXT-X-MAP:URI="

TagFragmentDuration == "#EXTINF:"

TagEndList == "#EXT-X-ENDLIST"

Quote == "\""

\* the zero value of Discontinuity
ZeroDiscontinuity == [ProgramDateTime |-> ZeroTime, InitFile |-> "", Entries |-> <<>>]

\* new(Manifest) with BaseUrl set
NewManifest(baseUrl) ==
    [Version |-> 0, MediaSequence |-> 0, AllowCache |-> FALSE, TargetDuration |-> 0,
     Bandwidth |-> 0, Codecs |-> "", ResolutionHeight |-> 0, ResolutionWidth |-> 0,
     Discontinuities |-> <<>>, BaseUrl |-> baseUrl]

AllowCacheString(manifest) == IF manifest.AllowCache THEN "YES" ELSE "NO"

IsFmp4(manifest) ==
    \E i \in 1..Len(manifest.Discontinuities) : manifest.Discontinuities[i].InitFile # ""

FilenameWithoutExtension(entry) == TrimSuffix(PathBase(entry.Url), PathExt(entry.Url))

MpegTsFilename(entry) == FilenameWithoutExtension(entry) \o ".ts"

Fmp4Filename(entry) == FilenameWithoutExtension(entry) \o ".m4s"

InitFileName(discontinuity) ==
    TrimSuffix(discontinuity.InitFile, PathExt(discontinuity.InitFile)) \o ".mp4"

\* the nil *URL when the reference does not parse
DynamicUrl(entry, baseUrl) == UrlResolve(baseUrl, entry.Url)

DynamicInitFile(discontinuity, baseUrl) == UrlResolve(baseUrl, discontinuity.InitFile)

\* a slip: the mode is ignored
EntryFileNameTs(entry, isFmp4) == MpegTsFilename(entry)

\* the name WriteLocalManifest writes for a fragment
EntryFileName(entry, isFmp4) == IF isFmp4 THEN Fmp4Filename(entry) ELSE MpegTsFilename(entry)

(***************************************************************************)
(* ReadManifest.  lines are the lines the scanner delivers; readerErr      *)
(* tells whether the reader then failed (scanner.Err() # nil) rather than  *)
(* reaching the end of the input.                                          *)
(***************************************************************************)
\* strings.Split(s, "x"), its elements 0 and 1 (the second "" when there is none)
SplitX(s) ==
    LET i    == IndexOf(s, "x")
        rest == SubSeq(s, i + 1, Len(s))
        j    == IndexOf(rest, "x")
    IN  IF i = 0 THEN <<s>>
        ELSE <<SubSeq(s, 1, i - 1), IF j = 0 THEN rest ELSE SubSeq(rest, 1, j - 1)>>

\* manifest.Discontinuities[lastIndex] with field f set to v
SetLast(manifest, f, v) ==
    [manifest EXCEPT !.Discontinuities[Len(manifest.Discontinuities)] =
        [manifest.Discontinuities[Len(manifest.Discontinuities)] EXCEPT ![f] = v]]

\* a slip: the new entry is put in front
PrependEntry(entries, manifestEntry) == <<manifestEntry>> \o entries

\* append(Entries, manifestEntry)
AppendEntry(entries, manifestEntry) == Append(entries, manifestEntry)

\* a slip: the entry without a reference is kept
KeepOnEnd(manifest, manifestEntry) ==
    SetLast(manifest, "Entries",
            Append(manifest.Discontinuities[Len(manifest.Discontinuities)].Entries,
                   manifestEntry))

\* scanner.Scan() fails after a fragment-duration line: break, the entry is dropped
BreakOnEnd(manifest, manifestEntry) == manifest

\* the body of the scan loop: the lines from index i on, applied to manifest
RECURSIVE ScanLoop(_, _, _)
ScanLoop(lines, i, manifest) ==
    IF i > Len(lines) THEN manifest
    ELSE LET line == lines[i]
             last == manifest.Discontinuities[Len(manifest.Discontinuities)]
         IN
         IF HasPrefix(line, TagBandwidth)
         THEN ScanLoop(lines, i + 1,
                  [manifest EXCEPT !.Bandwidth = Atoi(TrimPrefix(line, TagBandwidth))])
         ELSE IF HasPrefix(line, TagCodecs)
         THEN ScanLoop(lines, i + 1, [manifest EXCEPT !.Codecs = TrimPrefix(line, TagCodecs)])
         ELSE IF HasPrefix(line, TagResolution)
         THEN LET resolution == SplitX(TrimPrefix(line, TagResolution))
              IN  ScanLoop(lines, i + 1,
                      [manifest EXCEPT !.ResolutionWidth = Atoi(resolution[1]),
                                       !.ResolutionHeight =
                                           IF Len(resolution) > 1 THEN Atoi(resolution[2])
                                           ELSE manifest.ResolutionHeight])
         ELSE IF HasPrefix(line, TagVersion)
         THEN ScanLoop(lines, i + 1,
                  [manifest EXCEPT !.Version = Atoi(TrimPrefix(line, TagVersion))])
         ELSE IF HasPrefix(line, TagMediaSequence)
         THEN ScanLoop(lines, i + 1,
                  [manifest EXCEPT !.MediaSequence = Atoi(TrimPrefix(line, TagMediaSequence))])
         ELSE IF HasPrefix(line, TagAllowCache)
         THEN ScanLoop(lines, i + 1,
                  [manifest EXCEPT !.AllowCache = (TrimPrefix(line, TagAllowCache) = "YES")])
         ELSE IF HasPrefix(line, TagTargetDuration)
         THEN ScanLoop(lines, i + 1,
                  [manifest EXCEPT !.TargetDuration =
                                       ParseFloat(TrimPrefix(line, TagTargetDuration))])
         ELSE IF line = TagDiscontinuity
         THEN ScanLoop(lines, i + 1,
                  [manifest EXCEPT !.Discontinuities = Append(@, ZeroDiscontinuity)])
         ELSE IF HasPrefix(line, TagProgramDateTime)
         THEN ScanLoop(lines, i + 1,
                  SetLast(manifest, "ProgramDateTime",
                          TimeParse(TrimPrefix(line, TagProgramDateTime))))
         ELSE IF HasPrefix(line, TagInitFile)
         THEN ScanLoop(lines, i + 1,
                  SetLast(manifest, "InitFile",
                          TrimSuffix(TrimPrefix(TrimPrefix(line, TagInitFile), Quote), Quote)))
         ELSE IF HasPrefix(line, TagFragmentDuration)
         THEN LET duration == ParseFloat(TrimSuffix(TrimPrefix(line, TagFragmentDuration), ","))
              IN  IF i + 1 > Len(lines)
                  THEN BreakOnEnd(manifest, [Duration |-> duration, Url |-> ""])
                  ELSE ScanLoop(lines, i + 2,
                           SetLast(manifest, "Entries",
                                   AppendEntry(last.Entries,
                                               [Duration |-> duration, Url |-> lines[i + 1]])))
         ELSE ScanLoop(lines, i + 1, manifest)

\* the base locator: the parsed source locator with the last path element removed
BaseUrlOf(sourceUrl) ==
    LET u == UrlParse(sourceUrl)
    IN  [u EXCEPT !.Path = TrimSuffix(u.Path, PathBase(u.Path))]

\* ReadManifest: panicked tells a nil dereference of the *URL that url.Parse returned
ReadManifest(lines, sourceUrl, readerErr) ==
    IF UrlParse(sourceUrl).Nil
    THEN [panicked |-> TRUE, manifest |-> NewManifest(NilUrl), err |-> FALSE]
    ELSE [panicked |-> FALSE,
          manifest |-> ScanLoop(lines, 1,
                           [NewManifest(BaseUrlOf(sourceUrl)) EXCEPT
                               !.Discontinuities = <<ZeroDiscontinuity>>]),
          err |-> readerErr]

(***************************************************************************)
(* WriteLocalManifest: the lines written, each without its newline         *)
(***************************************************************************)
RECURSIVE WriteEntries(_, _, _)
WriteEntries(entries, i, isFmp4) ==
    IF i > Len(entries) THEN <<>>
    ELSE <<TagFragmentDuration \o FormatFloat(entries[i].Duration) \o ",",
           EntryFileName(entries[i], isFmp4)>>
         \o WriteEntries(entries, i + 1, isFmp4)

RECURSIVE WriteDiscontinuities(_, _, _)
WriteDiscontinuities(discontinuities, index, isFmp4) ==
    IF index > Len(discontinuities) THEN <<>>
    ELSE LET discontinuity == discontinuities[index]
         IN  (IF index > 1 THEN <<TagDiscontinuity>> ELSE <<>>)
             \o <<TagProgramDateTime \o TimeFormatOf(discontinuity.ProgramDateTime),
                  TagInitFile \o Quote \o InitFileName(discontinuity) \o Quote>>
             \o WriteEntries(discontinuity.Entries, 1, isFmp4)
             \o WriteDiscontinuities(discontinuities, index + 1, isFmp4)

WriteLocalManifest(manifest) ==
    <<TagOpener>>
    \o (IF manifest.Bandwidth # 0
        THEN <<TagBandwidth \o FormatInt(manifest.Bandwidth)>> ELSE <<>>)
    \o (IF manifest.Codecs # "" THEN <<TagCodecs \o manifest.Codecs>> ELSE <<>>)
    \o (IF manifest.ResolutionWidth # 0 /\ manifest.ResolutionHeight # 0
        THEN <<TagResolution \o FormatInt(manifest.ResolutionWidth) \o "x"
                \o FormatInt(manifest.ResolutionHeight)>>
        ELSE <<>>)
    \o <<TagVersion \o FormatInt(manifest.Version),
         TagMediaSequence \o FormatInt(manifest.MediaSequence),
         TagAllowCache \o AllowCacheString(manifest),
         TagTargetDuration \o FormatFloat(manifest.TargetDuration)>>
    \o WriteDiscontinuities(manifest.Discontinuities, 1, IsFmp4(manifest))
    \o <<TagEndList>>

(***************************************************************************)
(* DownloadAllFragments and DownloadFile                                   *)
(***************************************************************************)
\* the go statements one discontinuity executes, in order: its init segment in
\* fragmented-MP4 mode, then each of its entries
RECURSIVE LaunchEntries(_, _, _)
LaunchEntries(discontinuities, d, e) ==
    IF e > Len(discontinuities[d].Entries) THEN <<>>
    ELSE <<[kind |-> "fragment", d |-> d, e |-> e]>> \o LaunchEntries(discontinuities, d, e + 1)

\* a slip: the init segment is fetched whatever the mode
LaunchInitAlways(d, isFmp4) == <<[kind |-> "init", d |-> d, e |-> 0]>>

\* the go statement for the init segment of discontinuity d
LaunchInit(d, isFmp4) == IF isFmp4 THEN <<[kind |-> "init", d |-> d, e |-> 0]>> ELSE <<>>

RECURSIVE LaunchLoop(_, _, _)
LaunchLoop(discontinuities, d, isFmp4) ==
    IF d > Len(discontinuities) THEN <<>>
    ELSE LaunchInit(d, isFmp4)
         \o LaunchEntries(discontinuities, d, 1)
         \o LaunchLoop(discontinuities, d + 1, isFmp4)

\* every go statement of one DownloadAllFragments call, in launch order
LaunchList(m) == LaunchLoop(m.Discontinuities, 1, IsFmp4(m))

\* the file name a task passes to DownloadFile
TaskFileName(m, t) ==
    IF t.kind = "init" THEN InitFileName(m.Discontinuities[t.d])
    ELSE IF IsFmp4(m) THEN Fmp4Filename(m.Discontinuities[t.d].Entries[t.e])
    ELSE MpegTsFilename(m.Discontinuities[t.d].Entries[t.e])

\* the *URL a task resolves, NilUrl when the reference does not parse
TaskUrl(m, t) ==
    IF t.kind = "init" THEN DynamicInitFile(m.Discontinuities[t.d], m.BaseUrl)
    ELSE DynamicUrl(m.Discontinuities[t.d].Entries[t.e], m.BaseUrl)

Dir == "out"

\* path.Join(dir, filename), for names without dot segments
FilePath(dir, filename) == dir \o "/" \o filename

\* os.Stat(filePath) returns no error
Exists(d, filePath) == d[filePath] # "absent"

\* a slip: no existence check, as in the first downloadFile
NeverSkip(d, filePath, force) == FALSE

\* DownloadFile returns early, without creating the file
SkipDownload(d, filePath, force) == Exists(d, filePath) /\ ~force

\* a slip: wg.Add(1) is missing
WgNoAdd(n) == n

\* the WaitGroup counter after wg.Add(1) and after wg.Done()
WgAdd(n) == n + 1

WgDone(n) == n - 1

\* wg.Wait() returns
WaitReturns(n) == n = 0

(***************************************************************************)
(* Bounds and the inputs drawn within them                                 *)
(***************************************************************************)
MaxDisc == 2

MaxFragments == 2

MaxLines == 4

MaxTasks == 3

SeqsUpTo(S, n) == UNION {[1..k -> S] : k \in 0..n}

\* the sequences of k discontinuities with at most b entries in all
RECURSIVE DiscSeqs(_, _, _, _)
DiscSeqs(heads, entries, k, b) ==
    IF k = 0 THEN {<<>>}
    ELSE UNION {{<<[ProgramDateTime |-> h.ProgramDateTime, InitFile |-> h.InitFile,
                    Entries |-> es]>> \o rest :
                     h \in heads, rest \in DiscSeqs(heads, entries, k - 1, b - Len(es))} :
                es \in SeqsUpTo(entries, b)}

DiscSeqsUpTo(heads, entries) ==
    UNION {DiscSeqs(heads, entries, k, MaxFragments) : k \in 1..MaxDisc}

SourceUrls == {"http://h.tv/v/index.m3u8", "/data/index.m3u8", ":bad"}

\* fragment references: plain, in a sub-directory, and one url.Parse rejects
\* (a first path segment with a colon)
FetchRefs == {"seg1.ts", "v/seg2.mp4", "1:x.ts"}

FetchHeads == {[ProgramDateTime |-> ZeroTime, InitFile |-> f] : f \in {"", "init.mp4"}}

FetchManifests ==
    {[NewManifest(BaseUrlOf(src)) EXCEPT !.Version = 3, !.TargetDuration = 10 * FloatUnit,
                                         !.Discontinuities = ds] :
        src \in {"http://h.tv/v/index.m3u8"},
        ds \in DiscSeqsUpTo(FetchHeads, {[Duration |-> 95000000, Url |-> r] : r \in FetchRefs})}

\* the paths one call can create
DestPaths(m) == {FilePath(Dir, TaskFileName(m, LaunchList(m)[i])) : i \in 1..Len(LaunchList(m))}

\* the manifests whose call launches at most MaxTasks goroutines
BoundedFetchManifests == {m \in FetchManifests : Len(LaunchList(m)) <= MaxTasks}

(***************************************************************************)
(* Inputs of the parser and of the serializer                              *)
(***************************************************************************)
Time1 == [clock |-> "2024-05-06T07:08:09", frac |-> 1234]

PureHeaders ==
    {[Version |-> 0, MediaSequence |-> 0, AllowCache |-> FALSE, TargetDuration |-> 0,
      Bandwidth |-> 0, Codecs |-> "", ResolutionHeight |-> 0, ResolutionWidth |-> 640],
     [Version |-> 3, MediaSequence |-> 7, AllowCache |-> TRUE, TargetDuration |-> 12345678,
      Bandwidth |-> 1280, Codecs |-> "avc1", ResolutionHeight |-> 360, ResolutionWidth |-> 640]}

PureHeads ==
    {[ProgramDateTime |-> ZeroTime, InitFile |-> ""],
     [ProgramDateTime |-> Time1, InitFile |-> "init.mp4"],
     [ProgramDateTime |-> ZeroTime, InitFile |-> "v/init.m4v"]}

PureEntries ==
    {[Duration |-> 95000000, Url |-> "seg1.ts"],
     [Duration |-> 12345678, Url |-> "v/seg2.mp4"],
     [Duration |-> 0, Url |-> ""]}

PureManifests ==
    {[Version |-> h.Version, MediaSequence |-> h.MediaSequence, AllowCache |-> h.AllowCache,
      TargetDuration |-> h.TargetDuration, Bandwidth |-> h.Bandwidth, Codecs |-> h.Codecs,
      ResolutionHeight |-> h.ResolutionHeight, ResolutionWidth |-> h.ResolutionWidth,
      Discontinuities |-> ds, BaseUrl |-> BaseUrlOf("http://h.tv/v/index.m3u8")] :
        h \in PureHeaders, ds \in DiscSeqsUpTo(PureHeads, PureEntries)}

\* lines with a malformed integer, timestamp and float, the structural tags,
\* and two references (unrecognized lines where no fragment-duration line
\* precedes them)
InputLines ==
    {"#EXT-X-VERSION:x3", "#EXT-X-PROGRAM-DATE-TIME:yesterday", "#EXT-X-DISCONTINUITY",
     "#EXT-X-MAP:URI=\"init.mp4\"", "#EXTINF:9.500000,", "#EXTINF:long,",
     "seg1.ts", "v/seg2.ts"}

\* the locator and whether the reader fails after the last line
ReadSettings ==
    {[sourceUrl |-> "http://h.tv/v/index.m3u8", readerErr |-> FALSE],
     [sourceUrl |-> "http://h.tv/v/index.m3u8", readerErr |-> TRUE],
     [sourceUrl |-> "/data/index.m3u8", readerErr |-> FALSE],
     [sourceUrl |-> ":bad", readerErr |-> FALSE]}

VARIABLES
    manifest,       \* the Manifest DownloadAllFragments is called on
    forceDownload,  \* its forceDownload argument
    disk0,          \* the directory when the call starts: path -> state of the file
    disk,           \* the directory now
    tasks,          \* the goroutines launched so far, in launch order
    wg,             \* the WaitGroup counter
    mainpc,         \* "loop": launching and waiting, "returned"
    panicked,       \* a goroutine dereferenced a nil *URL: the process is gone
    calls,          \* the DownloadFile calls made: a bag of [file, url]
    transfers,      \* the transfers started (http.Get or os.ReadFile): a bag of [file, url]
    input,          \* the input of a pure function under test
    rendered,       \* WriteLocalManifest(input.manifest)
    reparsed,       \* ReadManifest(rendered)
    rerendered,     \* WriteLocalManifest(reparsed.manifest)
    readResult,     \* ReadManifest(input.lines, input.sourceUrl)
    ppc             \* the step of the pure function under test

fetchVars == <<manifest, forceDownload, disk0, disk, tasks, wg, mainpc, panicked, calls, transfers>>

pureVars == <<input, rendered, reparsed, rerendered, readResult, ppc>>

vars == <<manifest, forceDownload, disk0, disk, tasks, wg, mainpc, panicked, calls, transfers,
          input, rendered, reparsed, rerendered, readResult, ppc>>

NoResult == [panicked |-> FALSE, manifest |-> NewManifest(NilUrl), err |-> FALSE]

NoInput ==
    [kind |-> "none", manifest |-> NewManifest(NilUrl), lines |-> <<>>, sourceUrl |-> "",
     readerErr |-> FALSE]

PureIdle ==
    /\ input = NoInput
    /\ rendered = <<>>
    /\ reparsed = NoResult
    /\ rerendered = <<>>
    /\ readResult = NoResult
    /\ ppc = "idle"

\* hls calls DownloadAllFragments(directory, forceDownload) on the parsed manifest
Init ==
    /\ manifest \in BoundedFetchManifests
    /\ forceDownload \in BOOLEAN
    /\ disk0 \in {[p \in DestPaths(manifest) |-> st] : st \in {"absent", "present"}}
    /\ disk = disk0
    /\ tasks = <<>>
    /\ wg = 0
    /\ mainpc = "loop"
    /\ panicked = FALSE
    /\ calls = EmptyBag
    /\ transfers = EmptyBag
    /\ PureIdle

\* a slip: a failed fetch cancels the tasks still running
FinishOrCancel(i, outcome) ==
    /\ tasks' = [j \in 1..Len(tasks) |->
                    IF j = i THEN [tasks[j] EXCEPT !.pc = "done", !.outcome = outcome]
                    ELSE IF outcome # "ok" /\ tasks[j].pc # "done"
                    THEN [tasks[j] EXCEPT !.pc = "done", !.outcome = "cancelled"]
                    ELSE tasks[j]]
    /\ wg' = IF outcome # "ok" THEN 0 ELSE WgDone(wg)

\* a task that has returned; the deferred wg.Done() runs with it
Finish(i, outcome) ==
    /\ tasks' = [tasks EXCEPT ![i].pc = "done", ![i].outcome = outcome]
    /\ wg' = WgDone(wg)

\* the loop body: wg.Add(1) and the go statement
Launch ==
    /\ mainpc = "loop" /\ ~panicked
    /\ Len(tasks) < Len(LaunchList(manifest))
    /\ tasks' = Append(tasks, [kind |-> LaunchList(manifest)[Len(tasks) + 1].kind,
                               d |-> LaunchList(manifest)[Len(tasks) + 1].d,
                               e |-> LaunchList(manifest)[Len(tasks) + 1].e,
                               pc |-> "start", file |-> "", url |-> "", outcome |-> "none"])
    /\ wg' = WgAdd(wg)
    /\ UNCHANGED <<manifest, forceDownload, disk0, disk, mainpc, panicked, calls, transfers>>
    /\ UNCHANGED pureVars

\* wg.Wait() after the loop, and the return
Wait ==
    /\ mainpc = "loop" /\ ~panicked
    /\ Len(tasks) = Len(LaunchList(manifest))
    /\ WaitReturns(wg)
    /\ mainpc' = "returned"
    /\ UNCHANGED <<manifest, forceDownload, disk0, disk, tasks, wg, panicked, calls, transfers>>
    /\ UNCHANGED pureVars

\* the goroutine derives the file name and the URL; String() of a nil *URL panics
TaskPanic(i) ==
    /\ ~panicked /\ tasks[i].pc = "start"
    /\ TaskUrl(manifest, tasks[i]).Nil
    /\ panicked' = TRUE
    /\ UNCHANGED <<manifest, forceDownload, disk0, disk, tasks, wg, mainpc, calls, transfers>>
    /\ UNCHANGED pureVars

\* the goroutine calls DownloadFile, which stats the path
TaskStart(i) ==
    /\ ~panicked /\ tasks[i].pc = "start"
    /\ LET file == TaskFileName(manifest, tasks[i])
           u    == TaskUrl(manifest, tasks[i])
           url  == UrlString(u)
       IN  /\ ~u.Nil
           /\ calls' = calls (+) SetToBag({[file |-> file, url |-> url]})
           /\ IF SkipDownload(disk, FilePath(Dir, file), forceDownload)
              THEN /\ tasks' = [tasks EXCEPT ![i].pc = "done", ![i].outcome = "skipped",
                                             ![i].file = file, ![i].url = url]
                   /\ wg' = WgDone(wg)
              ELSE /\ tasks' = [tasks EXCEPT ![i].pc = "create", ![i].file = file,
                                             ![i].url = url]
                   /\ wg' = wg
    /\ UNCHANGED <<manifest, forceDownload, disk0, disk, mainpc, panicked, transfers>>
    /\ UNCHANGED pureVars

\* os.Create: truncates or creates the file, or fails
TaskCreate(i) ==
    /\ ~panicked /\ tasks[i].pc = "create"
    /\ \/ /\ disk' = [disk EXCEPT ![FilePath(Dir, tasks[i].file)] = "created"]
          /\ tasks' = [tasks EXCEPT ![i].pc = "transfer"]
          /\ wg' = wg
       \/ /\ Finish(i, "createFailed")
          /\ disk' = disk
    /\ UNCHANGED <<manifest, forceDownload, disk0, mainpc, panicked, calls, transfers>>
    /\ UNCHANGED pureVars

\* os.ReadFile + os.WriteFile for a rooted url, http.Get + io.Copy otherwise
TaskTransfer(i) ==
    /\ ~panicked /\ tasks[i].pc = "transfer"
    /\ transfers' = transfers (+) SetToBag({[file |-> tasks[i].file, url |-> tasks[i].url]})
    /\ \/ /\ disk' = [disk EXCEPT ![FilePath(Dir, tasks[i].file)] = "written"]
          /\ Finish(i, "ok")
       \/ /\ disk' = disk
          /\ Finish(i, "transferFailed")
    /\ UNCHANGED <<manifest, forceDownload, disk0, mainpc, panicked, calls>>
    /\ UNCHANGED pureVars

FetchIdle ==
    /\ manifest = NewManifest(NilUrl)
    /\ forceDownload = FALSE
    /\ disk0 = <<>>
    /\ disk = <<>>
    /\ tasks = <<>>
    /\ wg = 0
    /\ mainpc = "idle"
    /\ panicked = FALSE
    /\ calls = EmptyBag
    /\ transfers = EmptyBag

\* a manifest to render, parse back and render again, or a text to parse
PureInit ==
    /\ FetchIdle
    /\ \/ \E m \in PureManifests :
             input = [kind |-> "manifest", manifest |-> m, lines |-> <<>>,
                      sourceUrl |-> "local.manifest.m3u8", readerErr |-> FALSE]
       \/ \E k \in 0..MaxLines : \E ls \in [1..k -> InputLines] : \E rs \in ReadSettings :
             input = [kind |-> "text", manifest |-> NewManifest(NilUrl), lines |-> ls,
                      sourceUrl |-> rs.sourceUrl, readerErr |-> rs.readerErr]
    /\ rendered = <<>>
    /\ reparsed = NoResult
    /\ rerendered = <<>>
    /\ readResult = NoResult
    /\ ppc = "start"

Render ==
    /\ ppc = "start" /\ input.kind = "manifest"
    /\ rendered' = WriteLocalManifest(input.manifest)
    /\ ppc' = "rendered"
    /\ UNCHANGED <<input, reparsed, rerendered, readResult>>
    /\ UNCHANGED fetchVars

Reparse ==
    /\ ppc = "rendered"
    /\ reparsed' = ReadManifest(rendered, input.sourceUrl, FALSE)
    /\ ppc' = "reparsed"
    /\ UNCHANGED <<input, rendered, rerendered, readResult>>
    /\ UNCHANGED fetchVars

Rerender ==
    /\ ppc = "reparsed"
    /\ rerendered' = WriteLocalManifest(reparsed.manifest)
    /\ ppc' = "rerendered"
    /\ UNCHANGED <<input, rendered, reparsed, readResult>>
    /\ UNCHANGED fetchVars

Read ==
    /\ ppc = "start" /\ input.kind = "text"
    /\ readResult' = ReadManifest(input.lines, input.sourceUrl, input.readerErr)
    /\ ppc' = "read"
    /\ UNCHANGED <<input, rendered, reparsed, rerendered>>
    /\ UNCHANGED fetchVars

PureNext == Render \/ Reparse \/ Rerender \/ Read

SpecPure == PureInit /\ [][PureNext]_vars

Next ==
    \/ Launch
    \/ Wait
    \/ \E i \in 1..Len(tasks) : TaskPanic(i)
    \/ \E i \in 1..Len(tasks) : TaskStart(i)
    \/ \E i \in 1..Len(tasks) : TaskCreate(i)
    \/ \E i \in 1..Len(tasks) : TaskTransfer(i)

Spec == Init /\ [][Next]_vars

(***************************************************************************)
(* Properties of the parser and the serializer, checked under SpecPure     *)
(***************************************************************************)
\* the manifest has no discontinuity with an init-segment reference
Legacy(m) == \A i \in 1..Len(m.Discontinuities) : m.Discontinuities[i].InitFile = ""

\* the number of fragments of all discontinuities
RECURSIVE FragmentCount(_, _)
FragmentCount(m, d) ==
    IF d > Len(m.Discontinuities) THEN 0
    ELSE Len(m.Discontinuities[d].Entries) + FragmentCount(m, d + 1)

\* C1: rendering is idempotent after one normalization pass: rendering the
\* manifest parsed from a rendered manifest gives the same text, for every
\* manifest, legacy manifests included.
C1_RenderIdempotent == ppc = "rerendered" => rerendered = rendered

\* C7: ReadManifest returns a Manifest for every text and every source
\* locator; it neither aborts nor returns an error unless the reader failed.
C7_ReadFailsOnlyOnReaderError ==
    ppc = "read" => (~readResult.panicked /\ (readResult.err => input.readerErr))

\* the references of the complete duration+reference pairs from line i on, in
\* source order: a fragment-duration line takes the line after it
RECURSIVE CompletePairs(_, _)
CompletePairs(lines, i) ==
    IF i > Len(lines) THEN <<>>
    ELSE IF HasPrefix(lines[i], TagFragmentDuration)
    THEN IF i = Len(lines) THEN <<>> ELSE <<lines[i + 1]>> \o CompletePairs(lines, i + 2)
    ELSE CompletePairs(lines, i + 1)

\* the text ends right after a fragment-duration line that is read as one
RECURSIVE EndsDangling(_, _)
EndsDangling(lines, i) ==
    IF i > Len(lines) THEN FALSE
    ELSE IF HasPrefix(lines[i], TagFragmentDuration)
    THEN i = Len(lines) \/ EndsDangling(lines, i + 2)
    ELSE EndsDangling(lines, i + 1)

HasMarkerLine(lines) == \E i \in 1..Len(lines) : lines[i] = TagDiscontinuity

\* the references of the entries of a discontinuity, in order
EntryUrls(discontinuity) ==
    [i \in 1..Len(discontinuity.Entries) |-> discontinuity.Entries[i].Url]

\* C8: the Manifest ReadManifest returns has at least one Discontinuity, for
\* every input; when no line of the input is the discontinuity marker it has
\* exactly one, whose fragments are the complete duration+reference pairs of
\* the input in source order.
C8_AtLeastOneDiscontinuity ==
    (ppc = "read" /\ ~readResult.panicked) =>
        /\ Len(readResult.manifest.Discontinuities) >= 1
        /\ ~HasMarkerLine(input.lines) =>
              /\ Len(readResult.manifest.Discontinuities) = 1
              /\ EntryUrls(readResult.manifest.Discontinuities[1])
                     = CompletePairs(input.lines, 1)

\* a text without a marker line and with two complete pairs is parsed
C8_Witness ==
    /\ ppc = "read" /\ ~readResult.panicked
    /\ ~HasMarkerLine(input.lines)
    /\ EntryUrls(readResult.manifest.Discontinuities[1]) = <<"seg1.ts", "v/seg2.ts">>

\* C9: when the input ends right after a fragment-duration line, ReadManifest
\* returns no error and the Manifest of the text before that line: the
\* dangling duration adds no fragment, and every earlier fragment and header
\* field is as it is without it.
C9_DanglingDurationDropped ==
    (ppc = "read" /\ ~readResult.panicked /\ ~input.readerErr
        /\ EndsDangling(input.lines, 1)) =>
        /\ ~readResult.err
        /\ FragmentCount(readResult.manifest, 1) = Len(CompletePairs(input.lines, 1))
        /\ readResult.manifest =
              ReadManifest(SubSeq(input.lines, 1, Len(input.lines) - 1),
                           input.sourceUrl, FALSE).manifest

\* a text with one complete pair and then a dangling duration line is parsed
C9_Witness ==
    /\ ppc = "read" /\ ~readResult.panicked /\ ~input.readerErr
    /\ EndsDangling(input.lines, 1)
    /\ Len(input.lines) = 3
    /\ FragmentCount(readResult.manifest, 1) = 1

(***************************************************************************)
(* Properties of DownloadAllFragments, checked under Spec                  *)
(***************************************************************************)
\* every go statement of the call has been executed
AllLaunched == Len(tasks) = Len(LaunchList(manifest))

\* every task launched has finished
AllDone == \A i \in 1..Len(tasks) : tasks[i].pc = "done"

\* the task's DownloadFile returned an error
Failed(t) == t.outcome \in {"createFailed", "transferFailed"}

\* the task is inside DownloadFile, past the existence check
Running(t) == t.pc \in {"create", "transfer"}

\* C2: DownloadAllFragments is a full join point: it returns only after every
\* task it launched has finished, none is running or not yet started when it
\* returns, and once every task has finished the call is free to return.
C2_JoinPoint ==
    /\ mainpc = "returned" => (AllLaunched /\ AllDone)
    /\ (mainpc = "loop" /\ ~panicked /\ AllLaunched /\ AllDone) => ENABLED Wait

\* the call has returned after at least two tasks, one of which failed
C2_Witness ==
    /\ mainpc = "returned"
    /\ Len(tasks) >= 2
    /\ \E i \in 1..Len(tasks) : Failed(tasks[i])

\* C3: no two tasks that are running at the same time target the same
\* destination path.
C3_DistinctDestinations ==
    \A i, j \in 1..Len(tasks) :
        (i # j /\ Running(tasks[i]) /\ Running(tasks[j])) => tasks[i].file # tasks[j].file

\* a step that takes place after a failure or is one
C4_Step ==
    /\ \A i \in 1..Len(tasks) :
          (tasks[i].pc # "done" /\ tasks'[i].pc = "done" /\ Failed(tasks'[i])) =>
              /\ \A j \in (1..Len(tasks)) \ {i} : tasks'[j] = tasks[j]
              /\ mainpc' = mainpc
              /\ panicked' = panicked
    /\ ((\E i \in 1..Len(tasks) : Failed(tasks[i]))
           /\ mainpc = "loop" /\ ~panicked /\ AllLaunched /\ AllDone) => ENABLED Wait
    /\ mainpc' = "returned" =>
          \A j \in 1..Len(tasks) :
              tasks'[j].outcome \in {"skipped", "ok", "createFailed", "transferFailed"}

\* C4: a fetch that fails changes nothing of any other task or of the caller;
\* after a failure the call is free to return once all tasks have finished,
\* and when it returns every task has finished with its own outcome (skipped,
\* transferred or failed): none was cancelled.
C4_FailureIsolated == [][C4_Step]_vars

\* the call has returned after one fetch failed and another succeeded
C4_Witness ==
    /\ mainpc = "returned"
    /\ \E i, j \in 1..Len(tasks) : Failed(tasks[i]) /\ tasks[j].outcome = "ok"

\* the fetch of fragment e of discontinuity d, and of the init segment of d
FragmentFetch(m, d, e) ==
    [file |-> EntryFileName(m.Discontinuities[d].Entries[e], IsFmp4(m)),
     url |-> UrlString(DynamicUrl(m.Discontinuities[d].Entries[e], m.BaseUrl))]

InitFetch(m, d) ==
    [file |-> InitFileName(m.Discontinuities[d]),
     url |-> UrlString(DynamicInitFile(m.Discontinuities[d], m.BaseUrl))]

FragmentIndex(m) ==
    {de \in (1..Len(m.Discontinuities)) \X (1..MaxFragments + 1) :
        de[2] <= Len(m.Discontinuities[de[1]].Entries)}

\* how many times the fetch x is due: once per fragment and, in
\* fragmented-MP4 mode, once per discontinuity
Due(m, x) ==
    Cardinality({de \in FragmentIndex(m) : FragmentFetch(m, de[1], de[2]) = x})
    + (IF IsFmp4(m)
       THEN Cardinality({d \in 1..Len(m.Discontinuities) : InitFetch(m, d) = x})
       ELSE 0)

DueSet(m) ==
    {FragmentFetch(m, de[1], de[2]) : de \in FragmentIndex(m)}
    \cup (IF IsFmp4(m) THEN {InitFetch(m, d) : d \in 1..Len(m.Discontinuities)} ELSE {})

\* C5: the call issues exactly one fetch per fragment, with the fragment's own
\* resolved URL and file name, and one more per discontinuity for its init
\* segment iff the manifest is in fragmented-MP4 mode: no fetch is ever issued
\* more often than it is due, and when the call returns none is missing.
C5_OneFetchPerFragment ==
    /\ \A x \in BagToSet(calls) : CopiesIn(x, calls) <= Due(manifest, x)
    /\ mainpc = "returned" =>
          \A x \in DueSet(manifest) : CopiesIn(x, calls) = Due(manifest, x)

\* the call has returned from a fragmented-MP4 manifest of two discontinuities
\* and a fragment
C5_Witness ==
    /\ mainpc = "returned"
    /\ IsFmp4(manifest)
    /\ Len(manifest.Discontinuities) = 2
    /\ BagCardinality(calls) = 3

\* every destination file exists when the call starts
AllPresent == DOMAIN disk0 # {} /\ \A p \in DOMAIN disk0 : disk0[p] = "present"

\* C6: when every destination file exists and forceDownload is false, no
\* transfer is made and no file is created or truncated (each DownloadFile
\* only checks for existence and succeeds), and the call is free to return;
\* with forceDownload true no DownloadFile is skipped, and when the call
\* returns without a failure every file has been transferred.
C6_SkipExisting ==
    /\ (AllPresent /\ ~forceDownload) =>
          /\ transfers = EmptyBag
          /\ disk = disk0
          /\ \A i \in 1..Len(tasks) :
                /\ tasks[i].pc \in {"start", "done"}
                /\ tasks[i].pc = "done" => tasks[i].outcome = "skipped"
          /\ (mainpc = "loop" /\ ~panicked /\ AllLaunched /\ AllDone) => ENABLED Wait
    /\ forceDownload =>
          /\ \A i \in 1..Len(tasks) : tasks[i].outcome # "skipped"
          /\ (mainpc = "returned" /\ \A i \in 1..Len(tasks) : ~Failed(tasks[i])) =>
                /\ transfers = calls
                /\ \A p \in DOMAIN disk : disk[p] = "written"

\* the call has returned from two tasks whose files existed, without forceDownload
C6_Witness ==
    /\ mainpc = "returned"
    /\ AllPresent /\ ~forceDownload
    /\ Len(tasks) >= 2
    /\ BagCardinality(calls) = Len(tasks)

\* some discontinuity has an init-segment reference and some has none
MixedMode(m) ==
    /\ \E i \in 1..Len(m.Discontinuities) : m.Discontinuities[i].InitFile # ""
    /\ \E i \in 1..Len(m.Discontinuities) : m.Discontinuities[i].InitFile = ""

\* C10: a mixed-mode manifest is not treated like a uniform fragmented-MP4
\* manifest: no init segment is fetched for a discontinuity that declared
\* none, and no fragment of such a discontinuity is fetched under a .m4s name.
C10_MixedModeRejected ==
    MixedMode(manifest) =>
        \A i \in 1..Len(tasks) :
            manifest.Discontinuities[tasks[i].d].InitFile = "" =>
                /\ tasks[i].kind # "init"
                /\ ~HasSuffix(tasks[i].file, ".m4s")

(***************************************************************************)
(* Properties of the derived file names                                    *)
(***************************************************************************)
\* the part of a reference after its last slash, up to the last dot of that part
Stem(ref) ==
    LET base == SubSeq(ref, LastIndexOf(ref, "/") + 1, Len(ref))
        dot  == LastIndexOf(base, ".")
    IN  IF dot = 0 THEN base ELSE SubSeq(base, 1, dot - 1)

\* the fragment lines of a local manifest, in order: each line that follows a
\* fragment-duration line
RECURSIVE FragmentLines(_, _)
FragmentLines(lines, i) ==
    IF i >= Len(lines) THEN <<>>
    ELSE IF HasPrefix(lines[i], TagFragmentDuration)
         THEN <<lines[i + 1]>> \o FragmentLines(lines, i + 2)
         ELSE FragmentLines(lines, i + 1)

\* the init-segment URIs of a local manifest, in order
RECURSIVE InitLines(_, _)
InitLines(lines, i) ==
    IF i > Len(lines) THEN <<>>
    ELSE IF HasPrefix(lines[i], TagInitFile)
         THEN <<TrimSuffix(TrimPrefix(TrimPrefix(lines[i], TagInitFile), Quote), Quote)>>
              \o InitLines(lines, i + 1)
         ELSE InitLines(lines, i + 1)

\* the position of fragment e of discontinuity d among all fragments
RECURSIVE Ordinal(_, _, _)
Ordinal(m, d, e) ==
    IF d = 1 THEN e ELSE Len(m.Discontinuities[d - 1].Entries) + Ordinal(m, d - 1, e)

\* C11: in every step in which a goroutine calls DownloadFile for a fragment,
\* the file name it passes depends on the fragment's reference and the manifest-wide mode
\* only: it is the reference's base name without its extension, plus .ts when
\* no discontinuity has an init-segment reference and .m4s when one has; and it
\* is the name WriteLocalManifest writes on that fragment's line.
C11_Step ==
    \A i \in 1..Len(tasks) :
        (tasks[i].kind = "fragment" /\ tasks[i].pc = "start" /\ tasks'[i].pc # "start") =>
            LET ref == manifest.Discontinuities[tasks[i].d].Entries[tasks[i].e].Url
            IN  /\ tasks'[i].file = Stem(ref) \o (IF Legacy(manifest) THEN ".ts" ELSE ".m4s")
                /\ tasks'[i].file = FragmentLines(WriteLocalManifest(manifest), 1)
                                         [Ordinal(manifest, tasks[i].d, tasks[i].e)]

C11_FilenameFunction == [][C11_Step]_vars

\* seg1.ts has been fetched as seg1.m4s from a fragmented-MP4 manifest, next
\* to a fragment referenced in a sub-directory
C11_Witness ==
    /\ ~Legacy(manifest)
    /\ \E i, j \in 1..Len(tasks) :
          /\ tasks[i].kind = "fragment" /\ tasks[i].pc = "done"
          /\ manifest.Discontinuities[tasks[i].d].Entries[tasks[i].e].Url = "seg1.ts"
          /\ tasks[i].file = "seg1.m4s"
          /\ tasks[j].kind = "fragment" /\ tasks[j].pc = "done"
          /\ manifest.Discontinuities[tasks[j].d].Entries[tasks[j].e].Url = "v/seg2.mp4"

\* the elements of a sequence
Range(seq) == {seq[i] : i \in 1..Len(seq)}

\* every reference a local manifest holds: its fragment lines and init-segment URIs
LocalReferences(lines) == Range(FragmentLines(lines, 1)) \cup Range(InitLines(lines, 1))

\* a name with no directory component, scheme or host
Bare(name) ==
    /\ ~Contains(name, "/")
    /\ LET u == UrlParse(name) IN ~u.Nil /\ u.Scheme = "" /\ u.Host = ""

\* C12: every reference WriteLocalManifest writes, on a fragment line or as an
\* init-segment URI, is a bare file name: no directory component, no scheme
\* and no host, whatever form the source reference had.
C12_LocalReferencesBare ==
    ppc = "rendered" => \A name \in LocalReferences(rendered) : Bare(name)

\* C13: when DownloadAllFragments has returned, every file name the local
\* manifest of the same manifest references, on a fragment line or as an
\* init-segment URI, is the destination of a DownloadFile call it made.
C13_LocalReferencesFetched ==
    mainpc = "returned" =>
        \A name \in LocalReferences(WriteLocalManifest(manifest)) :
            \E x \in BagToSet(calls) : x.file = name

\* no other go statement of the call targets the file of task i
SoleTarget(i) ==
    \A j \in 1..Len(LaunchList(manifest)) :
        j # i => TaskFileName(manifest, LaunchList(manifest)[j]) # tasks[i].file

\* C14: a DownloadFile call that has returned an error has left its
\* destination path as it was when the call started: where no other task
\* targets the path, the path is in the state it had before the call.
C14_FailedFetchLeavesPath ==
    \A i \in 1..Len(tasks) :
        (tasks[i].pc = "done" /\ Failed(tasks[i]) /\ SoleTarget(i)) =>
            disk[FilePath(Dir, tasks[i].file)] = disk0[FilePath(Dir, tasks[i].file)]

====
